---- MODULE Spec2Model ----
(***************************************************************************)
(* Hatch CSV Cleaner (src/app.py): the field normalizers, the encoding-    *)
(* tolerant reader, clean, the serializer and the upload loop.             *)
(*                                                                         *)
(* A Python str is a sequence of characters; a character is a one-element  *)
(* TLA+ string, and a character outside ASCII is written by its code point *)
(* ("U+00DF" is the sharp s).  A byte is written the same way: an ASCII    *)
(* byte by its character, any other byte as "xC3".                         *)
(***************************************************************************)
EXTENDS Integers, Sequences, FiniteSets, TLC

VARIABLES pc, arg, ret, uploaded, idx, cleaned_list, artifacts, merged

vars == <<pc, arg, ret, uploaded, idx, cleaned_list, artifacts, merged>>

(***************************************************************************)
(* Bounds of the explored inputs.                                          *)
(***************************************************************************)
MaxPhonePre == 2
MaxPhonePad == 10
MaxTokenLen == 3
MaxRows == 3
MaxBytes == 4
MaxCsvRows == 2
MaxCellLen == 1
MaxFiles == 2
MaxBatchRows == 2
LongNumber == 11

(***************************************************************************)
(* Characters and the str methods the code calls.                          *)
(***************************************************************************)
LowerCase == <<"a","b","c","d","e","f","g","h","i","j","k","l","m",
               "n","o","p","q","r","s","t","u","v","w","x","y","z","U+00E9">>
UpperCase == <<"A","B","C","D","E","F","G","H","I","J","K","L","M",
               "N","O","P","Q","R","S","T","U","V","W","X","Y","Z","U+00C9">>

UpperMap ==
    [c \in {LowerCase[i] : i \in 1..Len(LowerCase)} |->
        UpperCase[CHOOSE i \in 1..Len(LowerCase) : LowerCase[i] = c]]

LowerMap ==
    [c \in {UpperCase[i] : i \in 1..Len(UpperCase)} |->
        LowerCase[CHOOSE i \in 1..Len(UpperCase) : UpperCase[i] = c]]

\* str.upper() of one character: a sequence, since the sharp s (U+00DF)
\* uppercases to the two characters "SS".
Upper(c) ==
    IF c = "U+00DF" THEN <<"S", "S">>
    ELSE IF c \in DOMAIN UpperMap THEN <<UpperMap[c]>> ELSE <<c>>

\* str.lower() of one character.
Lower(c) == IF c \in DOMAIN LowerMap THEN <<LowerMap[c]>> ELSE <<c>>

RECURSIVE LowerStr(_)
LowerStr(s) == IF s = <<>> THEN <<>> ELSE Lower(Head(s)) \o LowerStr(Tail(s))

\* str.isspace() of one character.
IsSpace(c) == c \in {" ", "\t", "\n", "\r"}

\* What \d matches in a str pattern: every Unicode decimal digit, the ASCII
\* ones and, here, ARABIC-INDIC DIGIT THREE (U+0663).
IsDigit(c) == c \in {"0","1","2","3","4","5","6","7","8","9","U+0663"}

IsAsciiDigit(c) == c \in {"0","1","2","3","4","5","6","7","8","9"}

RECURSIVE LStrip(_)
LStrip(s) == IF s # <<>> /\ IsSpace(Head(s)) THEN LStrip(Tail(s)) ELSE s

RECURSIVE RStrip(_)
RStrip(s) ==
    IF s # <<>> /\ IsSpace(s[Len(s)]) THEN RStrip(SubSeq(s, 1, Len(s) - 1)) ELSE s

\* str.strip()
Strip(s) == LStrip(RStrip(s))

\* The first item of str.split(): the characters up to the first whitespace
\* of a string that starts with none.
RECURSIVE FirstToken(_)
FirstToken(s) ==
    IF s = <<>> \/ IsSpace(Head(s)) THEN <<>> ELSE <<Head(s)>> \o FirstToken(Tail(s))

RECURSIVE StrUpTo(_, _)
StrUpTo(alphabet, n) ==
    IF n = 0 THEN {<<>>}
    ELSE LET shorter == StrUpTo(alphabet, n - 1)
         IN  shorter \cup {Append(s, c) : s \in shorter, c \in alphabet}

RECURSIVE Repeat(_, _)
Repeat(c, n) == IF n = 0 THEN <<>> ELSE <<c>> \o Repeat(c, n - 1)

(***************************************************************************)
(* smart_cap_piece, extract_first_name, normalize_phone                    *)
(***************************************************************************)
Delimiters == {"-", "U+2019", "'"}

\* cap_seg: s[:1].upper() + s[1:].lower() if s else ""
cap_seg(s) == IF s = <<>> THEN <<>> ELSE Upper(Head(s)) \o LowerStr(Tail(s))

\* re.split on the class of "-", U+2019 and "'": the segments between the delimiters and,
\* the group being captured, each delimiter as a part of its own.
RECURSIVE ReSplit(_, _)
ReSplit(piece, seg) ==
    IF piece = <<>> THEN <<seg>>
    ELSE IF Head(piece) \in Delimiters
         THEN <<seg, <<Head(piece)>>>> \o ReSplit(Tail(piece), <<>>)
         ELSE ReSplit(Tail(piece), Append(seg, Head(piece)))

RECURSIVE JoinCapped(_)
JoinCapped(parts) ==
    IF parts = <<>> THEN <<>>
    ELSE (IF Head(parts) \in {<<d>> : d \in Delimiters}
          THEN Head(parts) ELSE cap_seg(Head(parts)))
         \o JoinCapped(Tail(parts))

smart_cap_piece(piece) ==
    IF piece = <<>> THEN <<>> ELSE JoinCapped(ReSplit(piece, <<>>))

extract_first_name(name) ==
    IF name = <<>> THEN <<>>
    ELSE LET token == IF Strip(name) # <<>> THEN FirstToken(Strip(name)) ELSE <<>>
         IN  smart_cap_piece(token)

\* re.sub(r"\D+", "", raw): the characters \d matches, in order.
RECURSIVE KeepDigits(_)
KeepDigits(s) ==
    IF s = <<>> THEN <<>>
    ELSE (IF IsDigit(Head(s)) THEN <<Head(s)>> ELSE <<>>) \o KeepDigits(Tail(s))

normalize_phone(raw) ==
    IF raw = <<>> THEN <<>>
    ELSE LET digits == KeepDigits(raw)
         IN  IF digits # <<>> /\ Head(digits) = "1" /\ Len(digits) >= LongNumber
             THEN Tail(digits) ELSE digits

(***************************************************************************)
(* The upload loop's variables while a single function is explored.        *)
(***************************************************************************)
NoRet == [set |-> FALSE]

BatchIdle ==
    /\ uploaded = <<>>
    /\ idx = 0
    /\ cleaned_list = <<>>
    /\ artifacts = <<>>
    /\ merged = NoRet

BatchUnchanged == UNCHANGED <<uploaded, idx, cleaned_list, artifacts, merged>>

(***************************************************************************)
(* SpecPhone: normalize_phone on every number of the bounded set.          *)
(***************************************************************************)
PhoneAlphabet == {"1", "5", "-", "U+0663"}

PhoneInputs ==
    {pre \o Repeat("5", k) \o suf :
        pre \in StrUpTo(PhoneAlphabet, MaxPhonePre),
        k \in 0..MaxPhonePad,
        suf \in StrUpTo(PhoneAlphabet, 1)}

InitPhone ==
    /\ pc = "call"
    /\ arg \in PhoneInputs
    /\ ret = NoRet
    /\ BatchIdle

CallNormalizePhone ==
    /\ pc = "call"
    /\ ret' = [set |-> TRUE, value |-> normalize_phone(arg)]
    /\ pc' = "return"
    /\ UNCHANGED arg
    /\ BatchUnchanged

NextPhone == CallNormalizePhone

SpecPhone == InitPhone /\ [][NextPhone]_vars

RECURSIVE KeepAsciiDigits(_)
KeepAsciiDigits(s) ==
    IF s = <<>> THEN <<>>
    ELSE (IF IsAsciiDigit(Head(s)) THEN <<Head(s)>> ELSE <<>>)
         \o KeepAsciiDigits(Tail(s))

\* C8: normalize_phone returns its input with every character that is not
\* an ASCII digit 0-9 removed, and then with one leading "1" removed if and
\* only if that digit string starts with "1" and has at least 11 digits; the
\* result holds ASCII digits only.
C8_AsciiDigitsOnly ==
    pc = "return" =>
        LET d == KeepAsciiDigits(arg)
        IN  /\ ret.value = (IF d # <<>> /\ Head(d) = "1" /\ Len(d) >= 11
                            THEN Tail(d) ELSE d)
            /\ \A i \in 1..Len(ret.value) : IsAsciiDigit(ret.value[i])

(***************************************************************************)
(* SpecCap: smart_cap_piece applied to a token, and again to its result.   *)
(***************************************************************************)
TokenAlphabet == {"a", "B", "-", "'", "U+2019", "U+00DF"}

InitCap ==
    /\ pc = "call"
    /\ arg \in StrUpTo(TokenAlphabet, MaxTokenLen)
    /\ ret = <<>>
    /\ BatchIdle

CallSmartCapPiece ==
    /\ pc = "call"
    /\ ret' = <<smart_cap_piece(arg)>>
    /\ pc' = "return"
    /\ UNCHANGED arg
    /\ BatchUnchanged

CallSmartCapPieceAgain ==
    /\ pc = "return"
    /\ ret' = Append(ret, smart_cap_piece(ret[1]))
    /\ pc' = "again"
    /\ UNCHANGED arg
    /\ BatchUnchanged

NextCap == CallSmartCapPiece \/ CallSmartCapPieceAgain

SpecCap == InitCap /\ [][NextCap]_vars

\* C9: smart_cap_piece is idempotent: applied to its own result it returns
\* that result; the delimiters of the token stay where they are.
C9_Idempotent ==
    pc = "again" => ret[2] = ret[1]

(***************************************************************************)
(* Tables.  A DataFrame is its column names and its rows, row i holding    *)
(* one cell per column; read_csv numbers the rows 0..n-1 and so does every *)
(* pd.Series the code builds, so a row's place is its index.               *)
(***************************************************************************)
EXPECTED == << <<"F","i","r","s","t"," ","N","a","m","e">>,
               <<"L","a","s","t"," ","N","a","m","e">>,
               <<"E","m","a","i","l">>,
               <<"P","h","o","n","e">>,
               <<"S","t","a","t","u","s">> >>

K_name          == <<"n","a","m","e">>
K_address       == <<"a","d","d","r","e","s","s">>
K_email_address == <<"e","m","a","i","l","_","a","d","d","r","e","s","s">>
K_email         == <<"e","m","a","i","l">>
K_phone_number  == <<"p","h","o","n","e","_","n","u","m","b","e","r">>
K_phone         == <<"p","h","o","n","e">>

\* None, and the "" the code puts where a role has no column: both falsy.
None == <<>>

\* cols = {c.lower(): c for c in df.columns}: a later column replaces an
\* earlier one with the same lowercased name.
ColsMap(df) ==
    [k \in {LowerStr(df.columns[j]) : j \in 1..Len(df.columns)} |->
        df.columns[CHOOSE j \in 1..Len(df.columns) :
            /\ LowerStr(df.columns[j]) = k
            /\ \A h \in 1..Len(df.columns) :
                   LowerStr(df.columns[h]) = k => h <= j]]

\* df[name]: the cells of the column called name, by row.
Column(df, name) ==
    LET j == CHOOSE h \in 1..Len(df.columns) : df.columns[h] = name
    IN  [i \in 1..Len(df.rows) |-> df.rows[i][j]]

\* pd.Series([""] * len(df))
Blanks(df) == [i \in 1..Len(df.rows) |-> <<>>]

first(cols, df) ==
    IF K_name \in DOMAIN cols
    THEN LET column == Column(df, cols[K_name])
         IN  [i \in 1..Len(column) |-> extract_first_name(column[i])]
    ELSE Blanks(df)

\* The address cells trimmed, as the email cells are.
last_stripped(cols, df) ==
    IF K_address \in DOMAIN cols
    THEN LET column == Column(df, cols[K_address])
         IN  [i \in 1..Len(column) |-> Strip(column[i])]
    ELSE Blanks(df)

last(cols, df) ==
    IF K_address \in DOMAIN cols THEN Column(df, cols[K_address]) ELSE Blanks(df)

\* cols.get(key)
Get(cols, key) == IF key \in DOMAIN cols THEN cols[key] ELSE None

\* a or b
Or(a, b) == IF a # None THEN a ELSE b

\* The two email names looked up in the other order.
email_src_swapped(cols) == Or(Get(cols, K_email), Get(cols, K_email_address))

email_src(cols) == Or(Get(cols, K_email_address), Get(cols, K_email))

\* .str.strip().str.lower()
StripLower(cell) == LowerStr(Strip(cell))

email(cols, df) ==
    IF email_src(cols) # None
    THEN LET column == Column(df, email_src(cols))
         IN  [i \in 1..Len(column) |-> StripLower(column[i])]
    ELSE Blanks(df)

phone_src(cols) == Or(Get(cols, K_phone_number), Get(cols, K_phone))

phone(cols, df) ==
    IF phone_src(cols) # None
    THEN LET column == Column(df, phone_src(cols))
         IN  [i \in 1..Len(column) |-> normalize_phone(column[i])]
    ELSE Blanks(df)

\* The columns of the source that no role took kept after the five.
BuildOutKeepRest(df) ==
    LET cols == ColsMap(df)
        c1 == first(cols, df)
        c2 == last(cols, df)
        c3 == email(cols, df)
        c4 == phone(cols, df)
        c5 == Blanks(df)
    IN  [columns |-> EXPECTED \o df.columns,
         rows |-> [i \in 1..Len(df.rows) |->
                     <<c1[i], c2[i], c3[i], c4[i], c5[i]>> \o df.rows[i]]]

\* out = pd.DataFrame({...}): the five series side by side.
BuildOut(df) ==
    LET cols == ColsMap(df)
        c1 == first(cols, df)
        c2 == last(cols, df)
        c3 == email(cols, df)
        c4 == phone(cols, df)
        c5 == Blanks(df)
    IN  [columns |-> EXPECTED,
         rows |-> [i \in 1..Len(df.rows) |-> <<c1[i], c2[i], c3[i], c4[i], c5[i]>>]]

\* out.iloc[0].replace("", pd.NA).isna().all()
FirstRowEmpty(out) == \A c \in 1..Len(out.rows[1]) : out.rows[1][c] = <<>>

\* Every leading empty row dropped, not the first alone.
RECURSIVE DropLeadingEmpty(_)
DropLeadingEmpty(out) ==
    IF Len(out.rows) # 0 /\ FirstRowEmpty(out)
    THEN DropLeadingEmpty([out EXCEPT !.rows = Tail(out.rows)])
    ELSE out

\* Drop the first row if all five columns are empty.
DropEmptyFirst(out) ==
    IF Len(out.rows) # 0 /\ FirstRowEmpty(out)
    THEN [out EXCEPT !.rows = Tail(out.rows)]
    ELSE out

clean(df) == DropEmptyFirst(BuildOut(df))

(***************************************************************************)
(* pd.read_csv(file, dtype=str, keep_default_na=False, na_values=[],       *)
(* encoding=enc): the bytes from the stream's position to its end are      *)
(* decoded, the text is cut into records and fields, the first record is   *)
(* the header and every cell stays the string that was read.  No file of   *)
(* the model starts with a byte-order mark (utf-8-sig then decodes as      *)
(* utf-8 does), has a header field that is empty or repeated, or a record    *)
(* longer than its header.                                                 *)
(***************************************************************************)
NoTable == [columns |-> <<>>, rows |-> <<>>]

Raised == [ok |-> FALSE, value |-> <<>>]

\* One byte of bytes.decode("utf-8"): xC3 xA9 is U+00E9, and either byte
\* anywhere else is invalid.  lead says that xC3 is waiting for its xA9.
Utf8Byte(d, b) ==
    IF ~d.ok THEN d
    ELSE IF b = "xC3"
         THEN IF d.lead THEN [d EXCEPT !.ok = FALSE] ELSE [d EXCEPT !.lead = TRUE]
         ELSE IF b = "xA9"
              THEN IF d.lead
                   THEN [d EXCEPT !.lead = FALSE, !.value = Append(@, "U+00E9")]
                   ELSE [d EXCEPT !.ok = FALSE]
              ELSE IF d.lead THEN [d EXCEPT !.ok = FALSE]
                   ELSE [d EXCEPT !.value = Append(@, b)]

\* The bytes lo..hi taken in order, by halves.
RECURSIVE Utf8Bytes(_, _, _, _)
Utf8Bytes(d, bytes, lo, hi) ==
    IF lo > hi THEN d
    ELSE IF lo = hi THEN Utf8Byte(d, bytes[lo])
         ELSE LET mid == (lo + hi) \div 2
                  half == Utf8Bytes(d, bytes, lo, mid)
              IN  IF ~half.ok THEN half ELSE Utf8Bytes(half, bytes, mid + 1, hi)

DecodeUtf8(bytes) ==
    LET d == Utf8Bytes([ok |-> TRUE, lead |-> FALSE, value |-> <<>>],
                       bytes, 1, Len(bytes))
    IN  IF d.ok /\ ~d.lead THEN [ok |-> TRUE, value |-> d.value] ELSE Raised

\* bytes.decode("latin-1"): every byte is the character of the same number.
DecodeLatin1(bytes) ==
    [i \in 1..Len(bytes) |->
        IF bytes[i] = "xC3" THEN "U+00C3"
        ELSE IF bytes[i] = "xA9" THEN "U+00A9" ELSE bytes[i]]

\* The encoding read_csv uses when none is given is UTF-8.
Decode(enc, bytes) ==
    IF enc = "latin-1" THEN [ok |-> TRUE, value |-> DecodeLatin1(bytes)]
    ELSE DecodeUtf8(bytes)

\* str.encode("utf-8") of the characters lo..hi.
RECURSIVE EncodeRange(_, _, _)
EncodeRange(text, lo, hi) ==
    IF lo > hi THEN <<>>
    ELSE IF lo = hi
         THEN IF text[lo] = "U+00E9" THEN <<"xC3", "xA9">> ELSE <<text[lo]>>
         ELSE LET mid == (lo + hi) \div 2
              IN  EncodeRange(text, lo, mid) \o EncodeRange(text, mid + 1, hi)

EncodeUtf8(text) == EncodeRange(text, 1, Len(text))

\* The tokenizer of read_csv: delimiter ",", quote character '"' doubled
\* inside a quoted field, records ended by "\n", by "\r" or by the two
\* together, blank lines and lines of blanks skipped.  In a tokenizer state
\* t, fld and row are the field and the record being read.
IsTerminator(c) == c \in {"\n", "\r"}

EndField(t) == [t EXCEPT !.st = "START_FIELD", !.fld = <<>>, !.row = Append(@, t.fld)]

\* A record with more fields than the header is an error.
EndLine(t) ==
    IF t.rows # <<>> /\ Len(t.row) + 1 > Len(t.rows[1])
    THEN [t EXCEPT !.st = "ERROR"]
    ELSE [t EXCEPT !.st = "START_RECORD", !.fld = <<>>, !.row = <<>>,
                   !.rows = Append(@, Append(t.row, t.fld))]

Push(t, c, next) == [t EXCEPT !.st = next, !.fld = Append(@, c)]

InField(t, c) ==
    IF IsTerminator(c) THEN EndLine(t)
    ELSE IF c = "," THEN EndField(t) ELSE Push(t, c, "IN_FIELD")

StartField(t, c) ==
    IF IsTerminator(c) THEN EndLine(t)
    ELSE IF c = "\"" THEN [t EXCEPT !.st = "IN_QUOTED_FIELD"]
         ELSE IF c = "," THEN EndField(t) ELSE Push(t, c, "IN_FIELD")

\* One character read in state t.
TokenizeChar(t, c) ==
    CASE t.st = "START_RECORD" ->
             IF IsTerminator(c) THEN t
             ELSE IF c \in {" ", "\t"} THEN Push(t, c, "WHITESPACE_LINE")
                  ELSE StartField(t, c)
      [] t.st = "WHITESPACE_LINE" ->
             IF IsTerminator(c) THEN [t EXCEPT !.st = "START_RECORD", !.fld = <<>>]
             ELSE IF c \in {" ", "\t"} THEN Push(t, c, "WHITESPACE_LINE")
                  ELSE InField(t, c)
      [] t.st = "START_FIELD" -> StartField(t, c)
      [] t.st = "IN_FIELD" -> InField(t, c)
      [] t.st = "IN_QUOTED_FIELD" ->
             IF c = "\"" THEN [t EXCEPT !.st = "QUOTE_IN_QUOTED_FIELD"]
             ELSE Push(t, c, "IN_QUOTED_FIELD")
      [] t.st = "QUOTE_IN_QUOTED_FIELD" ->
             IF c = "\"" THEN Push(t, c, "IN_QUOTED_FIELD") ELSE InField(t, c)
      [] t.st = "ERROR" -> t

\* The characters lo..hi read in order, by halves.
RECURSIVE TokenizeRange(_, _, _, _)
TokenizeRange(t, text, lo, hi) ==
    IF lo > hi THEN t
    ELSE IF lo = hi THEN TokenizeChar(t, text[lo])
         ELSE LET mid == (lo + hi) \div 2
                  half == TokenizeRange(t, text, lo, mid)
              IN  IF half.st = "ERROR" THEN half
                  ELSE TokenizeRange(half, text, mid + 1, hi)

\* The records of the text; the end of the text inside a quoted field is an
\* error, and it ends the record being read otherwise.
Tokenize(text) ==
    LET t == TokenizeRange([st |-> "START_RECORD", fld |-> <<>>, row |-> <<>>,
                            rows |-> <<>>], text, 1, Len(text))
        end == IF t.st \in {"START_RECORD", "WHITESPACE_LINE", "ERROR"} THEN t
               ELSE EndLine(t)
    IN  IF t.st = "IN_QUOTED_FIELD" \/ end.st = "ERROR" THEN Raised
        ELSE [ok |-> TRUE, value |-> end.rows]

\* A record shorter than the header is filled with "" (which
\* keep_default_na=False, na_values=[] leaves a string).
PadTo(row, width) == row \o [i \in 1..(width - Len(row)) |-> <<>>]

ParseCsv(text) ==
    LET t == Tokenize(text)
    IN  IF ~t.ok \/ t.value = <<>> THEN [ok |-> FALSE, value |-> NoTable]
        ELSE LET header == Head(t.value)
                 data == Tail(t.value)
             IN  [ok |-> TRUE,
                  value |-> [columns |-> header,
                             rows |-> [i \in 1..Len(data) |->
                                         PadTo(data[i], Len(header))]]]

read_csv(bytes, pos, enc) ==
    LET text == Decode(enc, SubSeq(bytes, pos + 1, Len(bytes)))
    IN  IF text.ok THEN ParseCsv(text.value) ELSE [ok |-> FALSE, value |-> NoTable]

(***************************************************************************)
(* load_csv_any.  left[k] is where the k-th attempt, when it fails, has    *)
(* left the stream; log lists the attempts made: the encoding, where the   *)
(* stream stood when the attempt began and where a failure left it.        *)
(***************************************************************************)
Encodings == <<"utf-8", "utf-8-sig", "latin-1">>

\* A handler without its file.seek(0).
SeekForgotten(pos, target) == pos

\* file.seek(target)
Seek(pos, target) == target

RECURSIVE TryEncodings(_, _, _, _, _)
TryEncodings(bytes, pos, k, left, log) ==
    IF k <= Len(Encodings)
    THEN LET r == read_csv(bytes, pos, Encodings[k])
         IN  IF r.ok
             THEN [raised |-> FALSE, table |-> r.value,
                   log |-> Append(log, [enc |-> Encodings[k], start |-> pos,
                                        ok |-> TRUE, left |-> Len(bytes)])]
             ELSE TryEncodings(bytes, Seek(left[k], 0), k + 1, left,
                               Append(log, [enc |-> Encodings[k], start |-> pos,
                                            ok |-> FALSE, left |-> left[k]]))
    ELSE LET at == Seek(pos, 0)
             r == read_csv(bytes, at, "default")
         IN  [raised |-> ~r.ok, table |-> r.value,
              log |-> Append(log, [enc |-> "default", start |-> at,
                                   ok |-> r.ok, left |-> Len(bytes)])]

load_csv_any(bytes, pos, left) == TryEncodings(bytes, pos, 1, left, <<>>)

\* Where the failed attempts on a stream may have left it: at its start or
\* at its end.
LeftChoices(bytes) == {[k \in 1..Len(Encodings) |-> p] : p \in {0, Len(bytes)}}

(***************************************************************************)
(* SpecLoad: load_csv_any on every stream of the bounded set, handed over  *)
(* at position 0.                                                          *)
(***************************************************************************)
ByteAlphabet == {"a", "\n", "xC3", "xA9"}

InitLoad ==
    /\ pc = "call"
    /\ arg \in [bytes : StrUpTo(ByteAlphabet, MaxBytes), pos : {0}]
    /\ ret = NoRet
    /\ BatchIdle

CallLoadCsvAny ==
    /\ pc = "call"
    /\ \E left \in [1..Len(Encodings) -> 0..Len(arg.bytes)] :
           ret' = load_csv_any(arg.bytes, arg.pos, left)
    /\ pc' = "return"
    /\ UNCHANGED arg
    /\ BatchUnchanged

NextLoad == CallLoadCsvAny

SpecLoad == InitLoad /\ [][NextLoad]_vars

Order == <<"utf-8", "utf-8-sig", "latin-1", "default">>

\* C7: for a stream handed over at position 0, load_csv_any makes at most
\* four attempts, in the order UTF-8, UTF-8 with byte-order mark, Latin-1,
\* default; every attempt starts at position 0, so the table returned is the
\* parse of the whole stream under the first attempt of that order that
\* succeeds; the call raises only when all four fail, and returns no table.
C7_AttemptsFromStart ==
    pc = "return" =>
        LET n == Len(ret.log)
            Whole(enc) == read_csv(arg.bytes, 0, enc)
        IN  /\ n \in 1..4
            /\ \A k \in 1..n : ret.log[k].enc = Order[k] /\ ret.log[k].start = 0
            /\ \A k \in 1..(n - 1) : ~Whole(Order[k]).ok
            /\ ~ret.raised =>
                   /\ Whole(Order[n]).ok
                   /\ ret.table = Whole(Order[n]).value
            /\ ret.raised <=> \A k \in 1..4 : ~Whole(Order[k]).ok
            /\ ret.raised => n = 4 /\ ret.table = NoTable

\* UTF-8 and UTF-8 with byte-order mark failed, the first leaving the
\* stream past its start, and Latin-1 read a table with a row.
C7_Witness ==
    /\ pc = "return"
    /\ Len(ret.log) = 3
    /\ ret.log[1].left > 0
    /\ ~ret.raised
    /\ Len(ret.table.rows) > 0

(***************************************************************************)
(* SpecClean: clean on every table of the bounded set.  ret.built is the   *)
(* local out before the first-row check, ret.out the table returned.       *)
(***************************************************************************)
H_Name          == <<"N","a","m","e">>
H_NAME          == <<"N","A","M","E">>
H_Address       == <<"A","d","d","r","e","s","s">>
H_Email_Address == <<"E","m","a","i","l","_","A","d","d","r","e","s","s">>
H_email         == <<"e","m","a","i","l">>
H_EMAIL         == <<"E","M","A","I","L">>
H_Phone_Number  == <<"P","h","o","n","e","_","N","u","m","b","e","r">>
H_Phone         == <<"P","h","o","n","e">>
H_Score         == <<"S","c","o","r","e">>
H_First_Name    == <<"F","i","r","s","t"," ","N","a","m","e">>

Headers ==
    { <<H_Name, H_Address>>, <<H_Address, H_NAME>>, <<H_Name, H_NAME>>,
      <<H_Email_Address, H_email>>, <<H_email, H_Email_Address>>,
      <<H_EMAIL, H_Phone>>, <<H_Phone, H_Phone_Number>>,
      <<H_Phone_Number, H_Phone>>, <<H_Score, H_First_Name>>,
      <<H_Score>>, <<H_EMAIL>> }

CleanCells == { <<>>, <<" ">>, <<" ","a","B"," ","1">> }

RowsOf(width, cells) == [1..width -> cells]

ExampleHeader == <<H_Name, H_Address, H_Email_Address, H_Phone_Number>>
ExampleRow ==
    << <<"M","a","r","y","-","A","n","n","e"," ","O","'","B","r","i","e","n">>,
       <<"S","m","i","t","h">>,
       <<" ","A","@","B",".","C","O","M"," ">>,
       <<"1","-","5","5","5","-","1","2","3","-","4","5","6","7">> >>
ExampleOut ==
    << <<"M","a","r","y","-","A","n","n","e">>,
       <<"S","m","i","t","h">>,
       <<"a","@","b",".","c","o","m">>,
       <<"5","5","5","1","2","3","4","5","6","7">>,
       <<>> >>

\* The rows a table under header h is filled from.
RowKinds(h) ==
    IF h = ExampleHeader
    THEN {ExampleRow, <<<<>>, <<>>, <<>>, <<>>>>}
    ELSE RowsOf(Len(h), CleanCells)

InitClean ==
    /\ pc = "call"
    /\ \E h \in Headers \cup {ExampleHeader} : \E n \in 0..MaxRows :
           \E rs \in [1..n -> RowKinds(h)] : arg = [columns |-> h, rows |-> rs]
    /\ ret = NoRet
    /\ BatchIdle

CallClean ==
    /\ pc = "call"
    /\ ret' = [set |-> TRUE, built |-> BuildOut(arg), out |-> clean(arg)]
    /\ pc' = "return"
    /\ UNCHANGED arg
    /\ BatchUnchanged

NextClean == CallClean

SpecClean == InitClean /\ [][NextClean]_vars

AllFiveEmpty(row) == Len(row) = 5 /\ \A c \in 1..5 : row[c] = <<>>

HasCol(df, key) == \E j \in 1..Len(df.columns) : LowerStr(df.columns[j]) = key

\* What the claim gives for a cell of output column `place`.
Projected(place, cell) ==
    CASE place = 1 -> extract_first_name(cell)
      [] place = 2 -> cell
      [] place = 3 -> LowerStr(Strip(cell))
      [] place = 4 -> normalize_phone(cell)

\* Column `place` of the built table is the projection of the cells of one
\* source column whose lowercased name is key, row by row.
FromCol(df, built, place, key) ==
    \E j \in 1..Len(df.columns) :
        /\ LowerStr(df.columns[j]) = key
        /\ \A i \in 1..Len(df.rows) :
               built[i][place] = Projected(place, df.rows[i][j])

AllBlank(df, built, place) == \A i \in 1..Len(df.rows) : built[i][place] = <<>>

ResolvesTo(df, src, keys) ==
    IF \E k \in 1..Len(keys) : HasCol(df, keys[k])
    THEN LET k == CHOOSE h \in 1..Len(keys) :
                      /\ HasCol(df, keys[h])
                      /\ \A g \in 1..(h - 1) : ~HasCol(df, keys[g])
         IN  /\ \E j \in 1..Len(df.columns) : df.columns[j] = src
             /\ LowerStr(src) = keys[k]
    ELSE src = None

\* C5: column resolution is case-insensitive with a fixed precedence: email
\* is the column named email_address when there is one and the column named
\* email only otherwise, phone is phone_number before phone, the name role is
\* a column named name only and the last-name role a column named address
\* only.
C5_Resolution ==
    pc = "return" =>
        LET cols == ColsMap(arg)
        IN  /\ ResolvesTo(arg, email_src(cols), <<K_email_address, K_email>>)
            /\ ResolvesTo(arg, phone_src(cols), <<K_phone_number, K_phone>>)
            /\ ResolvesTo(arg, Get(cols, K_name), <<K_name>>)
            /\ ResolvesTo(arg, Get(cols, K_address), <<K_address>>)
            /\ HasCol(arg, K_email_address) =>
                   FromCol(arg, ret.built.rows, 3, K_email_address)
            /\ HasCol(arg, K_phone_number) =>
                   FromCol(arg, ret.built.rows, 4, K_phone_number)
            /\ ~HasCol(arg, K_name) => AllBlank(arg, ret.built.rows, 1)
            /\ ~HasCol(arg, K_address) => AllBlank(arg, ret.built.rows, 2)

\* Both email columns are there, under names of mixed case, and the Email
\* field is taken from Email_Address.
C5_Witness ==
    /\ pc = "return"
    /\ arg.columns = <<H_email, H_Email_Address>>
    /\ arg.rows = << <<<<>>, <<" ","a","B"," ","1">>>> >>
    /\ ret.built.rows[1][3] = <<"a","b"," ","1">>

(***************************************************************************)
(* to_csv_bytes: df.to_csv(b, index=False, encoding="utf-8").  The writer  *)
(* is csv.writer with minimal quoting and the line terminator os.linesep.  *)
(* It quotes a field that holds the delimiter, the quote character or a    *)
(* character of the line terminator; a carriage return is one where        *)
(* os.linesep is "\r\n" and, from Python 3.13 on, is quoted whatever the   *)
(* terminator: crQuoted says which writer runs.                            *)
(***************************************************************************)
NeedsQuote(field, crQuoted) ==
    \E i \in 1..Len(field) :
        field[i] \in {",", "\"", "\n"} \cup (IF crQuoted THEN {"\r"} ELSE {})

RECURSIVE DoubleQuotes(_)
DoubleQuotes(field) ==
    IF field = <<>> THEN <<>>
    ELSE (IF Head(field) = "\"" THEN <<"\"", "\"">> ELSE <<Head(field)>>)
         \o DoubleQuotes(Tail(field))

WriteField(field, crQuoted) ==
    IF NeedsQuote(field, crQuoted)
    THEN <<"\"">> \o DoubleQuotes(field) \o <<"\"">>
    ELSE field

RECURSIVE JoinFields(_, _)
JoinFields(row, crQuoted) ==
    IF row = <<>> THEN <<>>
    ELSE WriteField(Head(row), crQuoted)
         \o (IF Len(row) > 1 THEN <<",">> ELSE <<>>)
         \o JoinFields(Tail(row), crQuoted)

\* One record and its terminator; a record of a single empty field is
\* written "" so that it is not a blank line.
WriteRow(row, crQuoted) ==
    (IF row = <<<<>>>> THEN <<"\"", "\"">> ELSE JoinFields(row, crQuoted)) \o <<"\n">>

RECURSIVE WriteRows(_, _)
WriteRows(rows, crQuoted) ==
    IF rows = <<>> THEN <<>>
    ELSE WriteRow(Head(rows), crQuoted) \o WriteRows(Tail(rows), crQuoted)

to_csv_bytes(df, crQuoted) ==
    EncodeUtf8(WriteRow(df.columns, crQuoted) \o WriteRows(df.rows, crQuoted))

(***************************************************************************)
(* SpecCsv: a table is cleaned, the result serialized and the bytes read   *)
(* again by load_csv_any.                                                  *)
(***************************************************************************)
CsvAlphabet == {",", "\"", "\n", "\r", "U+00E9"}

CsvHeaders == { <<H_Address>>, <<H_EMAIL>> }

InitCsv ==
    /\ pc = "call"
    /\ \E h \in CsvHeaders : \E n \in 0..MaxCsvRows :
           \E rs \in [1..n -> RowsOf(1, StrUpTo(CsvAlphabet, MaxCellLen))] :
               arg = [columns |-> h, rows |-> rs]
    /\ ret = [out |-> NoTable, data |-> <<>>, back |-> NoRet]
    /\ BatchIdle

CsvClean ==
    /\ pc = "call"
    /\ ret' = [ret EXCEPT !.out = clean(arg)]
    /\ pc' = "cleaned"
    /\ UNCHANGED arg
    /\ BatchUnchanged

CsvWrite ==
    /\ pc = "cleaned"
    /\ \E crQuoted \in BOOLEAN :
           ret' = [ret EXCEPT !.data = to_csv_bytes(ret.out, crQuoted)]
    /\ pc' = "written"
    /\ UNCHANGED arg
    /\ BatchUnchanged

CsvReload ==
    /\ pc = "written"
    /\ \E left \in LeftChoices(ret.data) :
           ret' = [ret EXCEPT !.back = load_csv_any(ret.data, 0, left)]
    /\ pc' = "reread"
    /\ UNCHANGED arg
    /\ BatchUnchanged

NextCsv == CsvClean \/ CsvWrite \/ CsvReload

SpecCsv == InitCsv /\ [][NextCsv]_vars

\* C10: a table produced by clean, serialized with to_csv_bytes and parsed
\* again with load_csv_any, comes back with the same five columns, the same
\* rows in the same order and every cell equal to the original string.
C10_RoundTrip ==
    pc = "reread" =>
        /\ ~ret.back.raised
        /\ ret.back.table.columns = EXPECTED
        /\ ret.back.table.rows = ret.out.rows

\* The round trip of the tables none of whose cells holds a carriage return.
RoundTripWithoutCR ==
    (pc = "reread" /\ \A i \in 1..Len(ret.out.rows) : \A c \in 1..5 :
                          \A k \in 1..Len(ret.out.rows[i][c]) :
                              ret.out.rows[i][c][k] # "\r") =>
        /\ ~ret.back.raised
        /\ ret.back.table.columns = EXPECTED
        /\ ret.back.table.rows = ret.out.rows

(***************************************************************************)
(* Spec: the upload loop.  uploaded holds the files of the uploader, each  *)
(* a stream at position 0; idx counts the files the loop has passed;       *)
(* artifacts are the row counts, preview and download button written for   *)
(* a file, merged the merged download.                                     *)
(***************************************************************************)
PreviewRows == 20

\* cleaned.head(20)
head(df, n) == [df EXCEPT !.rows = SubSeq(@, 1, IF Len(@) < n THEN Len(@) ELSE n)]

\* The tables listed from the last to the first.
RECURSIVE PdConcatReversed(_)
PdConcatReversed(tables) ==
    IF Len(tables) = 1 THEN Head(tables)
    ELSE LET rest == PdConcatReversed(Tail(tables))
         IN  [rest EXCEPT !.rows = @ \o Head(tables).rows]

\* pd.concat(cleaned_list, ignore_index=True)
RECURSIVE PdConcat(_)
PdConcat(tables) ==
    IF Len(tables) = 1 THEN Head(tables)
    ELSE LET rest == PdConcat(Tail(tables))
         IN  [rest EXCEPT !.rows = Head(tables).rows \o @]

\* The cells a column of an uploaded file is filled from, by header.
BatchCells(h) == IF h = <<H_Name>> THEN { <<>>, <<"a">> } ELSE { <<>> }

BatchHeaders == { <<H_Score>>, <<H_Name>> }

\* What a file may hold: a table of one column written out, or nothing at
\* all, which no encoding can parse.
FileContents ==
    {<<>>} \cup
    UNION {UNION {{to_csv_bytes([columns |-> h, rows |-> rs], TRUE) :
                      rs \in [1..n -> RowsOf(1, BatchCells(h))]} :
                  n \in 0..MaxBatchRows} : h \in BatchHeaders}

Init ==
    /\ pc = "run"
    /\ \E n \in 0..MaxFiles : uploaded \in [1..n -> [bytes : FileContents, pos : {0}]]
    /\ idx = 0
    /\ cleaned_list = <<>>
    /\ artifacts = <<>>
    /\ merged = NoRet
    /\ arg = <<>>
    /\ ret = NoRet

\* One pass of the loop body, lines 91-102; an exception of load_csv_any is
\* caught nowhere and ends the run.
ProcessFile ==
    /\ pc = "run"
    /\ idx < Len(uploaded)
    /\ \E left \in LeftChoices(uploaded[idx + 1].bytes) :
           LET f == uploaded[idx + 1]
               df_in == load_csv_any(f.bytes, f.pos, left)
               cleaned == clean(df_in.table)
           IN  IF df_in.raised
               THEN /\ pc' = "crashed"
                    /\ UNCHANGED <<idx, cleaned_list, artifacts>>
               ELSE /\ \E crQuoted \in BOOLEAN :
                           artifacts' =
                               Append(artifacts,
                                      [file |-> idx + 1,
                                       rows_read |-> Len(df_in.table.rows),
                                       rows_output |-> Len(cleaned.rows),
                                       preview |-> head(cleaned, PreviewRows),
                                       data |-> to_csv_bytes(cleaned, crQuoted)])
                    /\ cleaned_list' = Append(cleaned_list, cleaned)
                    /\ idx' = idx + 1
                    /\ pc' = pc
    /\ UNCHANGED <<uploaded, merged, arg, ret>>

\* After the loop, lines 103-111.
Merge ==
    /\ pc = "run"
    /\ uploaded # <<>>
    /\ idx = Len(uploaded)
    /\ IF Len(cleaned_list) > 1
       THEN LET table == PdConcat(cleaned_list)
            IN  \E crQuoted \in BOOLEAN :
                    merged' = [set |-> TRUE, table |-> table,
                               data |-> to_csv_bytes(table, crQuoted)]
       ELSE UNCHANGED merged
    /\ pc' = "done"
    /\ UNCHANGED <<uploaded, idx, cleaned_list, artifacts, arg, ret>>

\* Nothing uploaded: the usage notes, lines 112-120.
ShowUsage ==
    /\ pc = "run"
    /\ uploaded = <<>>
    /\ pc' = "usage"
    /\ UNCHANGED <<uploaded, idx, cleaned_list, artifacts, merged, arg, ret>>

Next == ProcessFile \/ Merge \/ ShowUsage

Spec == Init /\ [][Next]_vars

Readable(f) == ~load_csv_any(f.bytes, 0, [k \in 1..Len(Encodings) |-> 0]).raised

Cleaned(f) == clean(load_csv_any(f.bytes, 0, [k \in 1..Len(Encodings) |-> 0]).table)

\* C1: a read failure for one file does not abort the others: once the run
\* has ended, every file that can be read, before or after the failed one,
\* has its row counts, preview and download.
C1_FailureDoesNotAbort ==
    pc \in {"done", "crashed"} =>
        \A k \in 1..Len(uploaded) :
            Readable(uploaded[k]) =>
                \E a \in 1..Len(artifacts) :
                    /\ artifacts[a].file = k
                    /\ artifacts[a].rows_output = Len(Cleaned(uploaded[k]).rows)

IsString(cell) ==
    /\ DOMAIN cell = 1..Len(cell)
    /\ \A i \in 1..Len(cell) : cell[i] \in STRING

FixedSchema(table) ==
    /\ table.columns = << <<"F","i","r","s","t"," ","N","a","m","e">>,
                          <<"L","a","s","t"," ","N","a","m","e">>,
                          <<"E","m","a","i","l">>,
                          <<"P","h","o","n","e">>,
                          <<"S","t","a","t","u","s">> >>
    /\ \A i \in 1..Len(table.rows) :
           /\ Len(table.rows[i]) = 5
           /\ \A c \in 1..5 : IsString(table.rows[i][c])
           /\ table.rows[i][5] = <<>>

RECURSIVE RowsBefore(_)
RowsBefore(k) == IF k = 1 THEN 0 ELSE RowsBefore(k - 1) + Len(Cleaned(uploaded[k - 1]).rows)

\* C6: with more than one file uploaded, the merged table is the cleaned
\* tables one after the other in upload order: its length is the sum of
\* theirs, and row j of file k stands at place j after all rows of the files
\* before k, unaltered.
C6_MergedInUploadOrder ==
    (pc = "done" /\ Len(uploaded) > 1) =>
        /\ merged.set
        /\ Len(merged.table.rows) = RowsBefore(Len(uploaded) + 1)
        /\ \A k \in 1..Len(uploaded) :
               \A j \in 1..Len(Cleaned(uploaded[k]).rows) :
                   merged.table.rows[RowsBefore(k) + j] = Cleaned(uploaded[k]).rows[j]

\* Two files with different rows have been merged.
C6_Witness ==
    /\ pc = "done"
    /\ Len(uploaded) = 2
    /\ Len(cleaned_list[1].rows) = 2
    /\ Len(cleaned_list[2].rows) = 1
    /\ cleaned_list[1].rows[1] # cleaned_list[1].rows[2]
    /\ cleaned_list[2].rows[1] # cleaned_list[1].rows[2]
    /\ Len(merged.table.rows) = 3

====
